---- MODULE Spec2Model ----
(***************************************************************************)
(* Model of the interface-scale preview popup                              *)
(* (Telegram/SourceFiles/settings/settings_scale_preview.cpp):             *)
(* class Settings::Preview and the SetupScalePreview() entry point.        *)
(*                                                                         *)
(* Every handler of the class is a function from a record of the object's  *)
(* fields to the record after the handler returned; the actions at the     *)
(* bottom of the module apply one handler each and commit its result.      *)
(***************************************************************************)
EXTENDS Integers, Sequences, FiniteSets, TLC

VARIABLES
    pc,                      \* "setup" | "ready" | "crashed"
    controller,              \* window->sessionController() was non-null
    stream,                  \* a userpic producer is subscribed
    _widget,                 \* [hidden, geometry] of Ui::RpWidget _widget
    _nameStyle,              \* pixel size of _nameStyle.font
    _textStyle,              \* pixel size of _textStyle.font
    _shadow,                 \* _shadow.extend, as margins
    _shadowSides,
    _shadowCorners,
    _bubbleCorners,
    _bubbleShadowBottomRight,
    _bubbleShadow,
    _localShiftLeft,
    _bubbleTail,
    _replyBar,
    _name,
    _reply,
    _message,
    _content,
    _bubble,
    _userpic,
    _inner,
    _outer,
    _minOuterSize,
    _maxOuterSize,
    _layer,
    _canvas,
    _canvasCornerMasks,
    _userpicOriginal,
    _userpicImage,
    _scale,
    _ratio,
    _window,
    _shownAnimation,         \* [on, from, to, t] of Ui::Animations::Simple
    _shown,
    _filter,                 \* _filter != nullptr
    queued,                  \* applicationStateChanged calls queued for _filter
    palette,                 \* the application's current palette
    parent,                  \* the slider: [x, y, gx, gy, w]
    screen,                  \* parent->screen(): NoScreen or its availableGeometry()
    last                     \* the handler that ran last and what it called

fields == <<_widget, _nameStyle, _textStyle, _shadow, _shadowSides,
            _shadowCorners, _bubbleCorners, _bubbleShadowBottomRight,
            _bubbleShadow, _localShiftLeft, _bubbleTail, _replyBar, _name,
            _reply, _message, _content, _bubble, _userpic, _inner, _outer,
            _minOuterSize, _maxOuterSize, _layer, _canvas, _canvasCornerMasks,
            _userpicOriginal, _userpicImage, _scale, _ratio, _window,
            _shownAnimation, _shown, _filter>>

env == <<controller, stream, queued, palette, parent, screen>>

vars == <<pc, fields, env, last>>

----------------------------------------------------------------------------
(* Bounds of the model *)

MaxQueued == 1       \* applicationStateChanged calls queued at one time
AnimTicks == 2       \* animation callbacks one slide takes

----------------------------------------------------------------------------
(* Program constants *)

kMinTextWidth == 120
kMaxTextWidth == 320
kMaxTextLines == 3
kScaleMin == 50      \* style::kScaleMin
kScaleMax == 300     \* style::kScaleMax
AnimFull == 100      \* the animation value 1., in hundredths
AnimMid == 50        \* stands for every value between 0. and 1.

Null == [null |-> TRUE]          \* a null QImage / QPixmap, an empty cache
ImageA == [id |-> "a"]           \* two userpic images
ImageB == [id |-> "b"]
NoScreen == [none |-> TRUE]      \* parent->screen() == nullptr

----------------------------------------------------------------------------
(* Integer and geometry helpers (C++ int arithmetic, QPoint/QSize/QRect) *)

Min(a, b) == IF a < b THEN a ELSE b
Max(a, b) == IF a > b THEN a ELSE b

\* C++ integer division truncates toward zero
CDiv(a, b) == IF a >= 0 THEN a \div b ELSE -((-a) \div b)

Rect(x, y, w, h) == [x |-> x, y |-> y, w |-> w, h |-> h]
Size(w, h) == [w |-> w, h |-> h]
Margins(l, t, r, b) == [l |-> l, t |-> t, r |-> r, b |-> b]

NullRect == Rect(0, 0, 0, 0)     \* QRect()
NullSize == Size(-1, -1)         \* QSize()

RectSize(r) == Size(r.w, r.h)
RectIsEmpty(r) == r.w <= 0 \/ r.h <= 0
marginsAdded(r, m) == Rect(r.x - m.l, r.y - m.t, r.w + m.l + m.r, r.h + m.t + m.b)
moveTopLeft(r, x, y) == [r EXCEPT !.x = x, !.y = y]
moveLeft(r, x) == [r EXCEPT !.x = x]
moveTop(r, y) == [r EXCEPT !.y = y]
translated(r, dx, dy) == [r EXCEPT !.x = r.x + dx, !.y = r.y + dy]

\* QRect::intersected: the empty QRect() when the two do not overlap
intersected(a, b) ==
    LET l == Max(a.x, b.x)
        t == Max(a.y, b.y)
        r == Min(a.x + a.w, b.x + b.w)
        d == Min(a.y + a.h, b.y + b.h)
    IN  IF RectIsEmpty(a) \/ RectIsEmpty(b) \/ l >= r \/ t >= d
        THEN NullRect
        ELSE Rect(l, t, r - l, d - t)

\* QRect::intersects: false for a null rect; a negative extent is normalized
intersects(a, b) ==
    LET l1 == IF a.w < 0 THEN a.x + a.w - 1 ELSE a.x
        r1 == IF a.w < 0 THEN a.x ELSE a.x + a.w - 1
        l2 == IF b.w < 0 THEN b.x + b.w - 1 ELSE b.x
        r2 == IF b.w < 0 THEN b.x ELSE b.x + b.w - 1
        t1 == IF a.h < 0 THEN a.y + a.h - 1 ELSE a.y
        b1 == IF a.h < 0 THEN a.y ELSE a.y + a.h - 1
        t2 == IF b.h < 0 THEN b.y + b.h - 1 ELSE b.y
        b2 == IF b.h < 0 THEN b.y ELSE b.y + b.h - 1
    IN  /\ ~(a.w = 0 /\ a.h = 0)
        /\ ~(b.w = 0 /\ b.h = 0)
        /\ ~(l1 > r2 \/ l2 > r1)
        /\ ~(t1 > b2 \/ t2 > b1)

----------------------------------------------------------------------------
(* Scaling and text metrics *)

\* style::ConvertScale: round(value * scale / 100. - 0.01), never 0 for a
\* non-zero value
ConvertScale(value, scale) ==
    LET abs == IF value < 0 THEN -value ELSE value
        rounded == (abs * scale + 49) \div 100
        result == IF abs = 0 \/ rounded # 0 THEN rounded ELSE 1
    IN  IF value < 0 THEN -result ELSE result

\* Preview::scaled(int), with the record's current _scale
scaled(s, value) == ConvertScale(value, s._scale)

scaledMargins(s, l, t, r, b) ==
    Margins(scaled(s, l), scaled(s, t), scaled(s, r), scaled(s, b))

\* font->height of a font of the given pixel size
FontHeight(px) == (px * 4) \div 3

\* the example strings' lengths, in characters
NameChars == 10      \* "Bob Harris"
ReplyChars == 13     \* "Good morning!"
MessageChars == 28   \* "Do you know what time it is?"

\* Ui::Text::String::maxWidth(): the unwrapped width in a font of that size
TextMaxWidth(chars, px) == (chars * px) \div 2

\* Ui::Text::String::countHeight(width): one font height per wrapped line
CountHeight(chars, px, width) ==
    LET natural == TextMaxWidth(chars, px)
        lines == IF width <= 0 THEN chars
                 ELSE Max(1, (natural + width - 1) \div width)
    IN  lines * FontHeight(px)

----------------------------------------------------------------------------------------------------------------------------------------
(* The object as a record: what a handler reads and returns.  calls and    *)
(* drew collect what the running handler called and painted.               *)

St == [ _widget |-> _widget, _nameStyle |-> _nameStyle,
        _textStyle |-> _textStyle, _shadow |-> _shadow,
        _shadowSides |-> _shadowSides, _shadowCorners |-> _shadowCorners,
        _bubbleCorners |-> _bubbleCorners,
        _bubbleShadowBottomRight |-> _bubbleShadowBottomRight,
        _bubbleShadow |-> _bubbleShadow, _localShiftLeft |-> _localShiftLeft,
        _bubbleTail |-> _bubbleTail, _replyBar |-> _replyBar, _name |-> _name,
        _reply |-> _reply, _message |-> _message, _content |-> _content,
        _bubble |-> _bubble, _userpic |-> _userpic, _inner |-> _inner,
        _outer |-> _outer, _minOuterSize |-> _minOuterSize,
        _maxOuterSize |-> _maxOuterSize, _layer |-> _layer,
        _canvas |-> _canvas, _canvasCornerMasks |-> _canvasCornerMasks,
        _userpicOriginal |-> _userpicOriginal,
        _userpicImage |-> _userpicImage, _scale |-> _scale,
        _ratio |-> _ratio, _window |-> _window,
        _shownAnimation |-> _shownAnimation, _shown |-> _shown,
        _filter |-> _filter, queued |-> queued, palette |-> palette,
        parent |-> parent, screen |-> screen,
        calls |-> {}, drew |-> {} ]

\* the fields of a Preview as its member initializers leave them
Blank(ratio, window, place, scr, pal) ==
      [ _widget |-> [hidden |-> TRUE, geometry |-> NullRect],
        _nameStyle |-> 0, _textStyle |-> 0, _shadow |-> Margins(0, 0, 0, 0),
        _shadowSides |-> Null, _shadowCorners |-> Null,
        _bubbleCorners |-> Null, _bubbleShadowBottomRight |-> Null,
        _bubbleShadow |-> 0, _localShiftLeft |-> 0, _bubbleTail |-> Null,
        _replyBar |-> NullRect, _name |-> NullRect, _reply |-> NullRect,
        _message |-> NullRect, _content |-> NullRect, _bubble |-> NullRect,
        _userpic |-> NullRect, _inner |-> NullRect, _outer |-> NullRect,
        _minOuterSize |-> NullSize, _maxOuterSize |-> NullSize,
        _layer |-> Null, _canvas |-> Null, _canvasCornerMasks |-> Null,
        _userpicOriginal |-> Null, _userpicImage |-> Null, _scale |-> 0,
        _ratio |-> ratio, _window |-> window,
        _shownAnimation |-> [on |-> FALSE, from |-> 0, to |-> 0, t |-> 0],
        _shown |-> FALSE, _filter |-> FALSE, queued |-> <<>>,
        palette |-> pal, parent |-> place, screen |-> scr,
        calls |-> {}, drew |-> {} ]

Commit(r) ==
    /\ _widget' = r._widget
    /\ _nameStyle' = r._nameStyle
    /\ _textStyle' = r._textStyle
    /\ _shadow' = r._shadow
    /\ _shadowSides' = r._shadowSides
    /\ _shadowCorners' = r._shadowCorners
    /\ _bubbleCorners' = r._bubbleCorners
    /\ _bubbleShadowBottomRight' = r._bubbleShadowBottomRight
    /\ _bubbleShadow' = r._bubbleShadow
    /\ _localShiftLeft' = r._localShiftLeft
    /\ _bubbleTail' = r._bubbleTail
    /\ _replyBar' = r._replyBar
    /\ _name' = r._name
    /\ _reply' = r._reply
    /\ _message' = r._message
    /\ _content' = r._content
    /\ _bubble' = r._bubble
    /\ _userpic' = r._userpic
    /\ _inner' = r._inner
    /\ _outer' = r._outer
    /\ _minOuterSize' = r._minOuterSize
    /\ _maxOuterSize' = r._maxOuterSize
    /\ _layer' = r._layer
    /\ _canvas' = r._canvas
    /\ _canvasCornerMasks' = r._canvasCornerMasks
    /\ _userpicOriginal' = r._userpicOriginal
    /\ _userpicImage' = r._userpicImage
    /\ _scale' = r._scale
    /\ _ratio' = r._ratio
    /\ _window' = r._window
    /\ _shownAnimation' = r._shownAnimation
    /\ _shown' = r._shown
    /\ _filter' = r._filter
    /\ queued' = r.queued
    /\ palette' = r.palette
    /\ parent' = r.parent
    /\ screen' = r.screen

\* one statement after another: the value v of a local is computed once and
\* the statements that follow, F, use it
Bind(v, F(_)) == CHOOSE r \in { F(x) : x \in {v} } : TRUE

called(s, what) == [s EXCEPT !.calls = @ \cup {what}]

----------------------------------------------------------------------------
(* The widget and the animation object, as the class uses them *)

\* _widget.show()
widgetShow(s) == called([s EXCEPT !._widget.hidden = FALSE], "show")

\* _widget.hide()
widgetHide(s) == called([s EXCEPT !._widget.hidden = TRUE], "hide")

\* _widget.setGeometry(geometry)
setGeometry(s, geometry) == [s EXCEPT !._widget.geometry = geometry]

\* Preview::update(): _widget.update(_outer) schedules a repaint
update(s) == called(s, "update")

\* the value a running animation has reached: where it started before its
\* first tick, and from then on some value strictly between 0. and 1.,
\* which is kept as AnimMid (a slide between two equal values stays there)
AnimCurrent(a) == IF a.t = 0 \/ a.from = a.to THEN a.from ELSE AnimMid

\* _shownAnimation.value(final)
AnimValue(a, final) == IF a.on THEN AnimCurrent(a) ELSE final

\* _shownAnimation.start(callback, from, to, duration): a running animation
\* goes on from the value it has reached
AnimStart(s, from, to) ==
    called([s EXCEPT !._shownAnimation =
                [on |-> TRUE,
                 from |-> IF @.on THEN AnimCurrent(@) ELSE from,
                 to |-> to, t |-> 0]],
           "start")

Stopped == [on |-> FALSE, from |-> 0, to |-> 0, t |-> 0]

\* _shownAnimation.stop()
AnimStop(s) == called([s EXCEPT !._shownAnimation = Stopped], "stop")

----------------------------------------------------------------------------
(* Layout: Preview::updateToScale *)

\* lines 329-384: the styles, the texts and the rects inside the content
\* rect, at the _scale of s; content is still at (0, 0)
contentLayout(s) ==
    LET nameFont == scaled(s, 13)
        textFont == scaled(s, 13)
        replyBar == Rect(scaled(s, 1), scaled(s, 6) + 0,
                         scaled(s, 2), scaled(s, 36))
        namePosition == [x |-> scaled(s, 10), y |-> scaled(s, 6)]
        replyPosition == [x |-> scaled(s, 10),
                          y |-> scaled(s, 6) + FontHeight(nameFont)]
        wantedWidth == Max(Max(namePosition.x
                                 + TextMaxWidth(NameChars, nameFont),
                               replyPosition.x
                                 + TextMaxWidth(ReplyChars, textFont)),
                           TextMaxWidth(MessageChars, textFont))
        minTextWidth == scaled(s, kMinTextWidth)
        maxTextWidth == scaled(s, kMaxTextWidth)
        replySkip == replyBar.y + replyBar.h + scaled(s, 6)
    IN  Bind(Max(minTextWidth, Min(wantedWidth, maxTextWidth)),
             LAMBDA messageWidth :
        Bind(Min(CountHeight(MessageChars, textFont, maxTextWidth),
                 kMaxTextLines * FontHeight(textFont)),
             LAMBDA messageHeight :
          [ nameFont |-> nameFont,
            textFont |-> textFont,
            replyBar |-> replyBar,
            name |-> Rect(namePosition.x, namePosition.y,
                          messageWidth - namePosition.x,
                          FontHeight(nameFont)),
            reply |-> Rect(replyPosition.x, replyPosition.y,
                           messageWidth - replyPosition.x,
                           FontHeight(textFont)),
            message |-> moveTop(Rect(0, 0, messageWidth, messageHeight),
                                replySkip),
            content |-> Rect(0, 0, messageWidth,
                             replySkip + messageHeight) ]))

\* lines 328-432 of updateToScale: what follows its early return
updateToScaleTo(s, scale) ==
    Bind([s EXCEPT !._scale = scale], LAMBDA s1 :
    Bind(contentLayout(s1), LAMBDA c :
    Bind(marginsAdded(c.content, scaledMargins(s1, 13, 7, 13, 8)),
         LAMBDA bubble0 :
    Bind(s1._userpicOriginal # Null, LAMBDA hasUserpic :
    Bind(scaledMargins(s1, 20, 16, 20, 16), LAMBDA bubbleMargin :
    Bind(IF hasUserpic THEN scaled(s1, 40) ELSE 0, LAMBDA userpicSkip :
    Bind(marginsAdded(moveTopLeft(bubble0, 0, 0),
                      Margins(bubbleMargin.l + userpicSkip, bubbleMargin.t,
                              bubbleMargin.r, bubbleMargin.b)),
         LAMBDA inner0 :
    Bind(moveTopLeft(bubble0, -inner0.x, -inner0.y), LAMBDA bubble :
    Bind(scaled(s1, 33), LAMBDA userpicSize :
    Bind(scaledMargins(s1, 9, 8, 9, 10), LAMBDA extend :
    Bind(marginsAdded(moveTopLeft(inner0, 0, 0), extend), LAMBDA outer0 :
        \* update() is called before _outer is assigned: line 416
        update([s1 EXCEPT
            !._nameStyle = c.nameFont,
            !._textStyle = c.textFont,
            !._replyBar = c.replyBar,
            !._name = c.name,
            !._reply = c.reply,
            !._message = c.message,
            !._content = moveTopLeft(c.content, -bubble0.x, -bubble0.y),
            !._bubble = bubble,
            !._bubbleShadow = scaled(s1, 2),
            !._bubbleCorners = Null,
            !._bubbleTail = Null,
            !._bubbleShadowBottomRight = Null,
            !._userpic = IF hasUserpic
                         THEN Rect(bubbleMargin.l,
                                   bubble.y + bubble.h - userpicSize,
                                   userpicSize, userpicSize)
                         ELSE @,
            !._userpicImage = IF hasUserpic THEN Null ELSE @,
            !._shadow = extend,
            !._shadowSides = Null,
            !._shadowCorners = Null,
            !._inner = moveTopLeft(moveTopLeft(inner0, 0, 0),
                                   -outer0.x, -outer0.y),
            !._outer = moveTopLeft(outer0, 0, 0),
            !._layer = Size(outer0.w * s1._ratio, outer0.h * s1._ratio),
            !._canvas = Size(inner0.w * s1._ratio, inner0.h * s1._ratio),
            !._canvasCornerMasks = [radius |-> scaled(s1, 6)]])
    )))))))))))

\* updateToScale without its "if (_scale == scale) return;"
updateToScaleAlways(s, scale) == updateToScaleTo(s, scale)

\* Preview::updateToScale
updateToScale(s, scale) ==
    IF s._scale = scale THEN s ELSE updateToScaleTo(s, scale)

----------------------------------------------------------------------------
(* Positioning *)

\* adjustByScreenGeometry without the std::max(..., edgeLeft) of line 489
adjustByScreenGeometryNoEdgeLeft(s, geometry) ==
    IF s.screen = NoScreen THEN geometry
    ELSE
    IF \/ ~intersects(s.screen, geometry)
       \/ s.screen.w < s._maxOuterSize.w
       \/ s.screen.h < s._maxOuterSize.h
    THEN geometry
    ELSE
    Bind(Min(s.screen.x + s.screen.w, geometry.x + geometry.w),
         LAMBDA edgedRight :
    Bind(Min(geometry.x, edgedRight - s._maxOuterSize.w), LAMBDA left :
    Bind(Max(edgedRight, left + s._maxOuterSize.w), LAMBDA right :
        Rect(left, geometry.y, right - left, geometry.h))))

\* Preview::adjustByScreenGeometry
adjustByScreenGeometry(s, geometry) ==
    IF s.screen = NoScreen THEN geometry
    ELSE
    LET screenGeometry == s.screen
    IN  IF \/ ~intersects(screenGeometry, geometry)
           \/ screenGeometry.w < s._maxOuterSize.w
           \/ screenGeometry.h < s._maxOuterSize.h
        THEN geometry
        ELSE
        LET edgeLeft == screenGeometry.x
            edgeRight == screenGeometry.x + screenGeometry.w
        IN  Bind(Min(edgeRight, geometry.x + geometry.w), LAMBDA edgedRight :
            Bind(Max(Min(geometry.x, edgedRight - s._maxOuterSize.w),
                     edgeLeft),
                 LAMBDA left :
            Bind(Max(edgedRight, left + s._maxOuterSize.w), LAMBDA right :
                Rect(left, geometry.y, right - left, geometry.h))))

\* Preview::updateOuterPosition
updateOuterPosition(s, globalX) ==
    IF s._window
    THEN LET global == s._widget.geometry
             desiredLeft == globalX - CDiv(s._outer.w, 2) - global.x
         IN  update(update(
                 [s EXCEPT !._outer = moveTop(
                     moveLeft(@, Max(Min(desiredLeft,
                                         global.w - s._outer.w),
                                     0)),
                     s._maxOuterSize.h - s._outer.h)]))
    ELSE s

\* the QRect updateWindowGlobalPosition proposes for the window
windowRect(s, global) ==
    LET desiredLeft == global.x - CDiv(s._minOuterSize.w, 2)
        desiredRight == global.x + s.parent.w + CDiv(s._maxOuterSize.w, 2)
        requiredLeft == desiredRight - s._maxOuterSize.w
    IN  Bind(Min(desiredLeft, requiredLeft), LAMBDA left :
        Bind(Max(desiredRight, left + s._maxOuterSize.w), LAMBDA right :
            Rect(left, global.y - s._maxOuterSize.h,
                 right - left, s._maxOuterSize.h)))

\* Preview::updateWindowGlobalPosition
updateWindowGlobalPosition(s, global, globalX) ==
    Bind(windowRect(s, global), LAMBDA result :
    Bind(adjustByScreenGeometry(s, result), LAMBDA adjusted :
    Bind(setGeometry(s, adjusted), LAMBDA s1 :
        updateOuterPosition(s1, globalX))))

\* parent->mapToGlobal(QPoint())
mapToGlobal(s) == [x |-> s.parent.gx, y |-> s.parent.gy]

\* Preview::updateGlobalPosition(int globalX)
updateGlobalPosition(s, globalX) ==
    IF s._window
    THEN Bind(mapToGlobal(s), LAMBDA global :
         Bind([s EXCEPT !._localShiftLeft = globalX - global.x], LAMBDA s1 :
             updateWindowGlobalPosition(s1, global, globalX)))
    ELSE \* "const auto position = parent->pos();" ends the statement: the
         \* two QPoint terms that follow it are computed and discarded
         LET position == [x |-> s.parent.x, y |-> s.parent.y]
         IN  Bind(setGeometry(s, Rect(position.x, position.y,
                                      s._outer.w, s._outer.h)),
                  LAMBDA s1 : updateOuterPosition(s1, globalX))

\* Preview::updateGlobalPosition(), run by the event filter
updateGlobalPositionOnEvent(s) ==
    Bind(mapToGlobal(s), LAMBDA global :
        updateWindowGlobalPosition(s, global, global.x + s._localShiftLeft))

----------------------------------------------------------------------------
(* Visibility *)

\* toggleFilter that keeps the filter object once it is made
toggleFilterKept(s) ==
    IF s._shown /\ ~s._filter THEN [s EXCEPT !._filter = TRUE] ELSE s

\* Preview::toggleFilter: destroying _filter removes the event filters, the
\* applicationStateChanged connection and the calls queued through it
toggleFilter(s) ==
    IF ~s._shown THEN [s EXCEPT !._filter = FALSE, !.queued = <<>>]
    ELSE IF s._filter THEN s
    ELSE [s EXCEPT !._filter = TRUE]

\* lines 171-187 of toggleShown: what follows its early return
toggleShownTo(s, shown) ==
    Bind(toggleFilter([s EXCEPT !._shown = shown]), LAMBDA s1 :
    Bind(IF s1._shown THEN widgetShow(s1) ELSE s1, LAMBDA s2 :
        IF ~s2._shown /\ s2._widget.hidden
        THEN AnimStop(s2)
        ELSE AnimStart(s2, IF shown THEN 0 ELSE AnimFull,
                           IF shown THEN AnimFull ELSE 0)))

\* toggleShown without its "if (_shown == shown) return;"
toggleShownUnguarded(s, shown) == toggleShownTo(s, shown)

\* Preview::toggleShown
toggleShown(s, shown) ==
    IF s._shown = shown THEN s ELSE toggleShownTo(s, shown)

\* lines 156-162 of toggle: the Show and the accepted Update
toggleVisible(s, scale, globalX) ==
    Bind(updateToScale(s, scale), LAMBDA s1 :
    Bind(updateGlobalPosition(s1, globalX), LAMBDA s2 :
    Bind(IF s2._widget.hidden THEN called(s2, "UpdateOverlayed") ELSE s2,
         LAMBDA s3 : toggleShown(s3, TRUE))))

\* toggle without its "else if (show == Update && !_shown) return;"
toggleUpdateAlways(s, show, scale, globalX) ==
    IF show = "Hide" THEN toggleShown(s, FALSE)
    ELSE toggleVisible(s, scale, globalX)

\* Preview::toggle
toggle(s, show, scale, globalX) ==
    IF show = "Hide" THEN toggleShown(s, FALSE)
    ELSE IF show = "Update" /\ ~s._shown THEN s
    ELSE toggleVisible(s, scale, globalX)

\* the animation advanced by one tick; the last one ends it
animationTicked(s) ==
    [s EXCEPT !._shownAnimation =
        IF @.t + 1 >= AnimTicks THEN Stopped ELSE [t |-> @.t + 1] @@ @]

\* the callback without its "&& !_shownAnimation.animating()"
animationCallbackHasty(s) ==
    Bind(update(animationTicked(s)), LAMBDA s1 :
        IF ~s1._shown THEN widgetHide(s1) ELSE s1)

\* one tick of the running animation, then the callback toggleShown gave it
animationCallback(s) ==
    Bind(update(animationTicked(s)), LAMBDA s1 :
        IF ~s1._shown /\ ~s1._shownAnimation.on
        THEN widgetHide(s1)
        ELSE s1)

\* checkDeactivation, the slot connected to applicationStateChanged
checkDeactivation(s, state) ==
    IF state # "Active" THEN toggle(s, "Hide", 0, 0) ELSE s

----------------------------------------------------------------------------
(* Caches and painting *)

\* what a cached bitmap was made from
Asset(s) == [scale |-> s._scale, palette |-> s.palette]

\* Preview::validateUserpicCache
validateUserpicCache(s) ==
    IF \/ s._userpicImage # Null
       \/ s._userpicOriginal = Null
       \/ RectIsEmpty(s._userpic)
    THEN s
    ELSE [s EXCEPT !._userpicImage =
            [image |-> s._userpicOriginal,
             size |-> Size(s._userpic.w * s._ratio, s._userpic.h * s._ratio)]]

\* Preview::validateBubbleCache
validateBubbleCache(s) ==
    IF s._bubbleCorners # Null THEN s
    ELSE [s EXCEPT !._bubbleCorners = Asset(s),
                   !._bubbleTail = Asset(s),
                   !._bubbleShadowBottomRight = Asset(s)]

\* Preview::validateShadowCache
validateShadowCache(s) ==
    IF s._shadowSides # Null THEN s
    ELSE [s EXCEPT !._shadowSides = Asset(s), !._shadowCorners = Asset(s)]

draws(s, what, asset) == [s EXCEPT !.drew = @ \cup {<<what, asset>>}]

\* Preview::paintUserpic
paintUserpic(s, clip) ==
    IF RectIsEmpty(intersected(clip, s._userpic)) THEN s
    ELSE Bind(validateUserpicCache(s), LAMBDA s1 :
             draws(s1, "userpic", s1._userpicImage))

\* Preview::paintBubble (its content, reply and message are text alone)
paintBubble(s, clip) ==
    Bind(validateBubbleCache(s), LAMBDA s1 :
        [s1 EXCEPT !.drew = @ \cup
            { <<"bubbleShadowBottomRight", s1._bubbleShadowBottomRight>>,
              <<"bubbleCorners", s1._bubbleCorners>>,
              <<"bubbleTail", s1._bubbleTail>> }])

\* Preview::paintInner
paintInner(s, clip) ==
    Bind(paintUserpic(s, clip), LAMBDA s1 :
        paintBubble(s1, translated(clip, -s1._bubble.x, -s1._bubble.y)))

\* Preview::paintLayer
paintLayer(s, clip) ==
    Bind(validateShadowCache(s), LAMBDA s1 :
    Bind([s1 EXCEPT !.drew = @ \cup
              { <<"shadowSides", s1._shadowSides>>,
                <<"shadowCorners", s1._shadowCorners>> }],
         LAMBDA s2 :
    Bind(intersected(clip, s2._inner), LAMBDA inner :
        IF RectIsEmpty(inner) THEN s2
        ELSE Bind(paintInner(s2, translated(inner, -s2._inner.x,
                                                   -s2._inner.y)),
                  LAMBDA s3 :
                 draws(s3, "canvasCornerMasks", s3._canvasCornerMasks)))))

\* Preview::paint
paint(s, clip) ==
    Bind(intersected(clip, s._outer), LAMBDA outer :
        IF RectIsEmpty(outer) THEN s
        ELSE Bind(paintLayer(s, translated(outer, -s._outer.x, -s._outer.y)),
                  LAMBDA s1 :
                 draws(s1, "layer",
                       [opacity |->
                           AnimValue(s1._shownAnimation,
                                     IF s1._shown THEN AnimFull ELSE 0)])))

\* the paintRequest() handler: the widget's whole rect is repainted
paintRequest(s) ==
    paint(s, Rect(0, 0, s._widget.geometry.w, s._widget.geometry.h))

\* the style::PaletteChanged() handler
paletteChanged(s) ==
    update([s EXCEPT !._bubbleCorners = Null,
                     !._bubbleTail = Null,
                     !._bubbleShadowBottomRight = Null])

\* the handler of the userpic stream
userpicNext(s, image) ==
    IF s._userpicImage # Null
    THEN update([s EXCEPT !._userpicOriginal = image,
                          !._userpicImage = Null])
    ELSE [s EXCEPT !._userpicOriginal = image]

\* Preview::initAsWindow
initAsWindow(s) == widgetHide(s)

\* Preview::init
init(s) ==
    IF s._window
    THEN Bind(updateToScale(initAsWindow(s), kScaleMin), LAMBDA s1 :
         Bind([s1 EXCEPT !._minOuterSize = RectSize(s1._outer)], LAMBDA s2 :
         Bind(updateToScale(s2, CDiv(kScaleMax, s2._ratio)), LAMBDA s3 :
             [s3 EXCEPT !._maxOuterSize = RectSize(s3._outer)])))
    ELSE s

----------------------------------------------------------------------------
(* What the environment can be and what the slider can ask for *)

\* the slider's pos(), its mapToGlobal(QPoint()) and its width
PlaceMiddle == [x |-> 20, y |-> 500, gx |-> 400, gy |-> 700, w |-> 300]
PlaceCorner == [x |-> 20, y |-> 100, gx |-> 40, gy |-> 200, w |-> 200]

ScreenWide == Rect(0, 0, 1920, 1080)
ScreenSmall == Rect(0, 0, 900, 700)
ScreenBelow == Rect(0, 300, 1920, 780)

\* the valid interface scales: style::kScaleMin .. style::kScaleMax / ratio
ScaleMaxFor(ratio) == CDiv(kScaleMax, ratio)

Palettes == { "day", "night" }

ShowKinds == { "Hide", "Show", "Update" }    \* enum ScalePreviewShow

ApplicationStates == { "Active", "Inactive" }

\* the event types the filter acts on
Observed == { "Move", "Resize", "Show", "ShowToParent", "ZOrderChange" }

\* the events tried: two of those and one the filter lets pass
EventTypes == { "Move", "ZOrderChange", "Paint" }

Did(op, r) == [op |-> op, calls |-> r.calls, drew |-> r.drew]

----------------------------------------------------------------------------
(* Actions *)

\* the state SetupScalePreview starts from: the members of a Preview as
\* their initializers leave them, in one of the given environments
InitOver(controllers, windows, ratios, places, screens) ==
    /\ pc = "setup"
    /\ controller \in controllers
    /\ stream = FALSE
    /\ \E ratio \in ratios, window \in windows, place \in places,
          scr \in screens :
        \E b \in { Blank(ratio, window, place, scr, "day") } :
                /\ _widget = b._widget
                /\ _nameStyle = b._nameStyle
                /\ _textStyle = b._textStyle
                /\ _shadow = b._shadow
                /\ _shadowSides = b._shadowSides
                /\ _shadowCorners = b._shadowCorners
                /\ _bubbleCorners = b._bubbleCorners
                /\ _bubbleShadowBottomRight = b._bubbleShadowBottomRight
                /\ _bubbleShadow = b._bubbleShadow
                /\ _localShiftLeft = b._localShiftLeft
                /\ _bubbleTail = b._bubbleTail
                /\ _replyBar = b._replyBar
                /\ _name = b._name
                /\ _reply = b._reply
                /\ _message = b._message
                /\ _content = b._content
                /\ _bubble = b._bubble
                /\ _userpic = b._userpic
                /\ _inner = b._inner
                /\ _outer = b._outer
                /\ _minOuterSize = b._minOuterSize
                /\ _maxOuterSize = b._maxOuterSize
                /\ _layer = b._layer
                /\ _canvas = b._canvas
                /\ _canvasCornerMasks = b._canvasCornerMasks
                /\ _userpicOriginal = b._userpicOriginal
                /\ _userpicImage = b._userpicImage
                /\ _scale = b._scale
                /\ _ratio = b._ratio
                /\ _window = b._window
                /\ _shownAnimation = b._shownAnimation
                /\ _shown = b._shown
                /\ _filter = b._filter
                /\ queued = b.queued
                /\ palette = b.palette
                /\ parent = b.parent
                /\ screen = b.screen
    /\ last = [op |-> "None", calls |-> {}, drew |-> {}]

\* Preview::Preview: the subscription to the userpic stream, which may hand
\* over an image at once (first # Null), then init()
Preview(s, first) ==
    init(IF first # Null THEN userpicNext(s, first) ELSE s)

\* SetupScalePreview with a session controller
SetupWithController(first) ==
    /\ pc = "setup"
    /\ controller
    /\ \E r \in { Preview(St, first) } :
          Commit(r) /\ last' = Did("Setup", r)
    /\ pc' = "ready"
    /\ stream' = TRUE
    /\ UNCHANGED controller

\* SetupScalePreview without one: user is nullptr and
\* "user->activeUserpicView()" dereferences it.  The behaviour is undefined:
\* the call faults, or it goes unnoticed and a Preview is made without a
\* userpic stream
SetupWithoutController ==
    /\ pc = "setup"
    /\ ~controller
    /\ \/ /\ pc' = "crashed"
          /\ last' = [op |-> "Setup", calls |-> {"nullptr"}, drew |-> {}]
          /\ UNCHANGED <<fields, queued, palette, parent, screen>>
       \/ /\ pc' = "ready"
          /\ \E r \in { Preview(called(St, "nullptr"), Null) } :
                Commit(r) /\ last' = Did("Setup", r)
    /\ UNCHANGED <<controller, stream>>

\* the function SetupScalePreview returned is called by the slider
Toggle(show, scale, globalX) ==
    /\ pc = "ready"
    /\ \E r \in { toggle(St, show, scale, globalX) } :
          Commit(r) /\ last' = Did(show, r)
    /\ UNCHANGED <<pc, controller, stream>>

\* the animation manager ticks the running animation
AnimationTick ==
    /\ pc = "ready"
    /\ _shownAnimation.on
    /\ \E r \in { animationCallback(St) } :
          Commit(r) /\ last' = Did("Tick", r)
    /\ UNCHANGED <<pc, controller, stream>>

\* qApp emits applicationStateChanged: the call is queued for _filter
ApplicationStateChanged(state) ==
    /\ pc = "ready"
    /\ _filter
    /\ Len(queued) < MaxQueued
    /\ queued' = Append(queued, state)
    /\ last' = [op |-> "StateChanged", calls |-> {}, drew |-> {}]
    /\ UNCHANGED <<pc, fields, controller, stream, palette, parent, screen>>

\* the event loop delivers the queued call
DeliverStateChanged ==
    /\ pc = "ready"
    /\ queued # <<>>
    /\ \E r \in { checkDeactivation([St EXCEPT !.queued = Tail(queued)],
                                    Head(queued)) } :
          Commit(r) /\ last' = Did("Deactivation", r)
    /\ UNCHANGED <<pc, controller, stream>>

\* the event filter installed on the slider and its ancestors
eventFilter(s, type) ==
    IF type \in Observed THEN updateGlobalPositionOnEvent(s) ELSE s

\* the slider or one of its ancestors gets an event; a Move or a Resize
\* comes with a new place
AncestorEvent(type, place) ==
    /\ pc = "ready"
    /\ type \in {"Move", "Resize"} \/ place = parent
    /\ \E s \in { [St EXCEPT !.parent = place] } :
       \E r \in { IF s._filter THEN eventFilter(s, type) ELSE s } :
          Commit(r) /\ last' = Did("Event", r)
    /\ UNCHANGED <<pc, controller, stream>>

\* the userpic stream delivers an image
UserpicArrived(image) ==
    /\ pc = "ready"
    /\ stream
    /\ \E r \in { userpicNext(St, image) } :
          Commit(r) /\ last' = Did("Userpic", r)
    /\ UNCHANGED <<pc, controller, stream>>

\* the application switches to another palette
PaletteChanged(p) ==
    /\ pc = "ready"
    /\ p # palette
    /\ \E r \in { paletteChanged([St EXCEPT !.palette = p]) } :
          Commit(r) /\ last' = Did("Palette", r)
    /\ UNCHANGED <<pc, controller, stream>>

\* the widget, on screen, is asked to paint itself
Paint ==
    /\ pc = "ready"
    /\ ~_widget.hidden
    /\ \E r \in { paintRequest(St) } :
          Commit(r) /\ last' = Did("Paint", r)
    /\ UNCHANGED <<pc, controller, stream>>

----------------------------------------------------------------------------
(* Specification: every handler, in one environment per mode *)

Init == InitOver(BOOLEAN, BOOLEAN, {1}, {PlaceMiddle}, {ScreenWide})

Next ==
    \/ \E first \in {Null, ImageA} : SetupWithController(first)
    \/ SetupWithoutController
    \/ \E show \in ShowKinds, scale \in {100, ScaleMaxFor(_ratio)},
          globalX \in {450, 650} : Toggle(show, scale, globalX)
    \/ AnimationTick
    \/ \E state \in ApplicationStates : ApplicationStateChanged(state)
    \/ DeliverStateChanged
    \/ \E type \in EventTypes : AncestorEvent(type, parent)
    \/ \E image \in {ImageA} : UserpicArrived(image)
    \/ \E p \in Palettes : PaletteChanged(p)
    \/ Paint

Spec == Init /\ [][Next]_vars

----------------------------------------------------------------------------
(* Specification: showing and hiding while the event loop keeps running.   *)
(* The animation manager goes on ticking a running animation and the event *)
(* loop goes on delivering queued calls.                                   *)

InitLive == InitOver({TRUE}, BOOLEAN, {1}, {PlaceMiddle}, {ScreenWide})

NextLive ==
    \/ \E first \in {Null} : SetupWithController(first)
    \/ \E show \in ShowKinds, scale \in {100, ScaleMaxFor(_ratio)},
          globalX \in {450} : Toggle(show, scale, globalX)
    \/ AnimationTick
    \/ \E state \in ApplicationStates : ApplicationStateChanged(state)
    \/ DeliverStateChanged

SpecLive ==
    /\ InitLive
    /\ [][NextLive]_vars
    /\ WF_vars(AnimationTick)
    /\ WF_vars(DeliverStateChanged)

----------------------------------------------------------------------------
(* Specification: positioning, over both modes, two pixel ratios, two      *)
(* places of the slider and four screens                                   *)

Places == { PlaceMiddle, PlaceCorner }

Screens == { NoScreen, ScreenWide, ScreenSmall, ScreenBelow }

InitPosition == InitOver({TRUE}, BOOLEAN, {1, 2}, Places, Screens)

NextPosition ==
    \/ \E first \in {Null, ImageA} : SetupWithController(first)
    \/ \E show \in ShowKinds,
          scale \in {kScaleMin, 100, ScaleMaxFor(_ratio)},
          globalX \in {parent.gx, parent.gx + parent.w} :
            Toggle(show, scale, globalX)
    \/ \E type \in {"Move", "Show"}, place \in Places :
            AncestorEvent(type, place)
    \/ \E image \in {ImageA} : UserpicArrived(image)
    \/ AnimationTick

SpecPosition == InitPosition /\ [][NextPosition]_vars

----------------------------------------------------------------------------
(* Specification: painting, with two userpic images and two palettes *)

InitPaint == InitOver({TRUE}, BOOLEAN, {1}, {PlaceMiddle}, {ScreenWide})

NextPaint ==
    \/ \E first \in {Null, ImageA} : SetupWithController(first)
    \/ \E show \in ShowKinds, scale \in {100, ScaleMaxFor(_ratio)},
          globalX \in {450} : Toggle(show, scale, globalX)
    \/ AnimationTick
    \/ \E image \in {ImageA, ImageB} : UserpicArrived(image)
    \/ \E p \in Palettes : PaletteChanged(p)
    \/ Paint

SpecPaint == InitPaint /\ [][NextPaint]_vars

----------------
(* Properties of toggle *)

\* C1: toggle(Hide, ...) issued while _shown is already false does nothing:
\* it starts or stops no animation, calls neither show() nor hide() nor
\* anything else, and leaves every field of the Preview (the shown flag, the
\* filter, the scale, every rect, the widget's geometry) and the queued
\* notifications as they were; this is so too while the hide animation runs.
C1_HideWhenNotShownIsNoOp ==
    [][ (last'.op = "Hide" /\ ~_shown)
            => (UNCHANGED <<fields, env>> /\ last'.calls = {}) ]_vars

\* a Hide that called nothing arrived while the hide animation was running
C1_HideDuringHideAnimation ==
    /\ last.op = "Hide"
    /\ last.calls = {}
    /\ ~_shown
    /\ _shownAnimation.on
    /\ ~_widget.hidden

\* C2: toggle(Update, scale, globalX) issued while _shown is false is
\* ignored, whatever the scale and globalX, hidden or still hiding: no field
\* of the Preview changes and nothing is called.
C2_UpdateWhenNotShownIsIgnored ==
    [][ (last'.op = "Update" /\ ~_shown)
            => (UNCHANGED <<fields, env>> /\ last'.calls = {}) ]_vars

\* an Update for another scale arrived while the hide animation was running
C2_UpdateDuringHideAnimation ==
    /\ last.op = "Update"
    /\ ~_shown
    /\ _shownAnimation.on
    /\ ~_widget.hidden
    /\ _scale = 100

----------------------------------------------------------------------------
(* Properties of showing and hiding *)

\* C3: the last request wins and nothing is queued.  After a Show the target
\* is shown, after a Hide it is not, and a running animation always heads
\* for the value of the last request (1 shown, 0 not shown); a request that
\* turns the target over, a Hide in the middle of the show animation
\* included, starts the animation from the value it had reached.  While the
\* target is not shown the widget is hidden exactly when the animation is
\* over, a shown target's widget is never hidden, and with the ticks firing
\* a preview that is not to be shown gets hidden unless a Show comes first.
C3_LastRequestWins ==
    /\ [](last.op = "Show" => _shown)
    /\ [](last.op = "Hide" => ~_shown)
    /\ [](_shownAnimation.on
            => _shownAnimation.to = IF _shown THEN AnimFull ELSE 0)
    /\ [][ (last'.op \in {"Show", "Hide"} /\ _shown' # _shown)
             => /\ _shownAnimation'.on
                /\ _shownAnimation'.from
                     = AnimValue(_shownAnimation,
                                 IF _shown THEN AnimFull ELSE 0) ]_vars
    /\ [](~_shown => (_widget.hidden <=> ~_shownAnimation.on))
    /\ [](_shown => ~_widget.hidden)
    /\ (~_shown ~> (_widget.hidden \/ _shown))

\* a Hide arrived in the middle of the show animation and turned it round
C3_HideDuringShowAnimation ==
    /\ last.op = "Hide"
    /\ "start" \in last.calls
    /\ _shownAnimation.on
    /\ _shownAnimation.from = AnimMid
    /\ _shownAnimation.to = 0
    /\ ~_widget.hidden

\* C4: the subscription to applicationStateChanged (the _filter object)
\* exists exactly while the target is shown, and a call queued through it
\* does not outlive it, so none is delivered to a preview that was hidden.
\* Delivering a state other than Active leaves the target not shown, with
\* the hide animation started if it was shown; such a queued call leads to
\* a target that is not shown, and after a deactivation the widget gets
\* hidden unless a Show comes first.
C4_DeactivationHides ==
    /\ [](_filter <=> _shown)
    /\ [](queued # <<>> => _shown)
    /\ [][ (last'.op = "Deactivation" /\ Head(queued) # "Active")
             => /\ ~_shown'
                /\ _shown => /\ "start" \in last'.calls
                             /\ _shownAnimation'.on
                             /\ _shownAnimation'.to = 0 ]_vars
    /\ ((\E i \in 1..Len(queued) : queued[i] # "Active") ~> ~_shown)
    /\ ((last.op = "Deactivation" /\ ~_shown) ~> (_widget.hidden \/ _shown))

\* a delivered deactivation started the hide animation of a shown preview
C4_DeactivationStartedHiding ==
    /\ last.op = "Deactivation"
    /\ "start" \in last.calls
    /\ ~_shown
    /\ ~_filter
    /\ _shownAnimation.on
    /\ ~_widget.hidden

----------------------------------------------------------------------------
(* Properties of SetupScalePreview *)

\* C5: without a session controller SetupScalePreview does not dereference
\* the absent user, and the function it returns does nothing: whatever the
\* request, it calls nothing and the preview stays not shown and hidden.
C5_NoControllerGivesDisabledToggle ==
    ~controller =>
        /\ pc # "crashed"
        /\ "nullptr" \notin last.calls
        /\ last.op \in ShowKinds
             => (last.calls = {} /\ ~_shown /\ _widget.hidden)

----------------------------------------------------------------------------
(* Properties of positioning *)

\* a Show or an accepted Update has just run updateGlobalPosition(int)
AfterRequest ==
    pc = "ready" /\ last.op \in {"Show", "Update"} /\ _shown

\* ... or the event filter has just run updateGlobalPosition()
AfterReposition ==
    \/ AfterRequest
    \/ pc = "ready" /\ last.op = "Event" /\ "update" \in last.calls

\* C6: in embedded mode, after a Show or an accepted Update the widget has
\* the size of the outer rect, its left edge is the parent's x plus half the
\* parent's width minus half the outer width, and its bottom edge is the
\* parent's top.
C6_EmbeddedCenteredAboveParent ==
    (AfterRequest /\ ~_window) =>
        /\ RectSize(_widget.geometry) = RectSize(_outer)
        /\ _widget.geometry.x
             = parent.x + CDiv(parent.w, 2) - CDiv(_outer.w, 2)
        /\ _widget.geometry.y + _widget.geometry.h = parent.y

\* the screen is as wide and as tall as the maximum outer size and
\* intersects the rect
ScreenTakes(rect) ==
    /\ screen # NoScreen
    /\ screen.w >= _maxOuterSize.w
    /\ screen.h >= _maxOuterSize.h
    /\ intersects(screen, rect)

\* C7, as stated: in window mode, when the screen takes the proposed rect
\* the window's rect lies inside the screen on all four sides and is at
\* least as wide as the maximum outer size; otherwise it is the proposed
\* rect.
C7_WindowInsideScreenOnAllSides ==
    (AfterReposition /\ _window) =>
        \E proposed \in { windowRect(St, mapToGlobal(St)) } :
            IF ScreenTakes(proposed)
            THEN /\ _widget.geometry.x >= screen.x
                 /\ _widget.geometry.x + _widget.geometry.w
                      <= screen.x + screen.w
                 /\ _widget.geometry.y >= screen.y
                 /\ _widget.geometry.y + _widget.geometry.h
                      <= screen.y + screen.h
                 /\ _widget.geometry.w >= _maxOuterSize.w
            ELSE _widget.geometry = proposed

\* C7, amended: in window mode, when the screen takes the proposed rect the
\* window's rect lies between the screen's left and right edges, is at least
\* as wide as the maximum outer size, and keeps the proposed top and height;
\* otherwise it is the proposed rect.
C7_WindowInsideScreenHorizontally ==
    (AfterReposition /\ _window) =>
        \E proposed \in { windowRect(St, mapToGlobal(St)) } :
            IF ScreenTakes(proposed)
            THEN /\ _widget.geometry.x >= screen.x
                 /\ _widget.geometry.x + _widget.geometry.w
                      <= screen.x + screen.w
                 /\ _widget.geometry.w >= _maxOuterSize.w
                 /\ _widget.geometry.y = proposed.y
                 /\ _widget.geometry.h = proposed.h
            ELSE _widget.geometry = proposed

\* the proposed rect went over the screen's left edge and was moved in
C7_WindowMovedIn ==
    /\ AfterReposition
    /\ _window
    /\ ScreenTakes(windowRect(St, mapToGlobal(St)))
    /\ windowRect(St, mapToGlobal(St)).x < screen.x
    /\ _widget.geometry.x = screen.x

\* C8: in window mode, after every Show, accepted Update and reposition by
\* an event the outer rect lies inside the window: left edge >= 0, right
\* edge <= the window's width, top edge >= 0, bottom edge at the window's
\* bottom.
C8_OuterInsideWindow ==
    (AfterReposition /\ _window) =>
        /\ _outer.x >= 0
        /\ _outer.x + _outer.w <= _widget.geometry.w
        /\ _outer.y >= 0
        /\ _outer.y + _outer.h = _widget.geometry.h

----------------------------------------------------------------------------
(* Properties of the caches and of painting *)

\* the bitmaps built from the scale and the palette
Themed ==
    { "bubbleShadowBottomRight", "bubbleCorners", "bubbleTail",
      "shadowSides", "shadowCorners" }

\* C9: no paint draws an asset built for an earlier scale, palette or source
\* image: what a paint draws of the bubble and of the shadow was built for
\* the current scale and palette, the userpic bitmap from the current source
\* image at the current size, the corner mask for the current scale.
C9_PaintDrawsCurrentAssets ==
    (pc = "ready" /\ last.op = "Paint") =>
        \A d \in last.drew :
            /\ d[1] \in Themed => d[2] = Asset(St)
            /\ d[1] = "userpic"
                 => /\ d[2] # Null
                    /\ d[2].image = _userpicOriginal
                    /\ d[2].size = Size(_userpic.w * _ratio,
                                        _userpic.h * _ratio)
            /\ d[1] = "canvasCornerMasks"
                 => d[2] = [radius |-> scaled(St, 6)]

\* C10: when the stream delivers an image other than the one the cached
\* bitmap was made from, none being cached yet included, to a widget that is
\* on screen, update() is called; and a paint of a preview that holds a
\* source image draws the userpic from that image in a non-empty rect.
C10_NewUserpicIsRepainted ==
    [][ /\ ( /\ last'.op = "Userpic"
             /\ ~_widget.hidden
             /\ \/ _userpicImage = Null
                \/ _userpicImage.image # _userpicOriginal' )
            => "update" \in last'.calls
        /\ (last'.op = "Paint" /\ _userpicOriginal' # Null)
            => /\ ~RectIsEmpty(_userpic')
               /\ \E d \in last'.drew :
                    /\ d[1] = "userpic"
                    /\ d[2] # Null
                    /\ d[2].image = _userpicOriginal' ]_vars

----------------------------------------------------------------------------
(* Properties of the layout recompute *)

\* what updateToScale computes: the styles, the rects and the buffers
layout ==
    <<_nameStyle, _textStyle, _replyBar, _name, _reply, _message, _content,
      _bubble, _bubbleShadow, _userpic, _inner, _shadow, _layer, _canvas>>

\* the cached bitmaps
caches ==
    <<_shadowSides, _shadowCorners, _bubbleCorners, _bubbleTail,
      _bubbleShadowBottomRight, _userpicImage, _canvasCornerMasks>>

\* C11: the recompute is idempotent.  In every state of a set up preview
\* updateToScale with the current scale returns the object as it is, calling
\* nothing; and a Show or an accepted Update that asks for the scale the
\* preview already has, paints having come in between or not, leaves the
\* styles, every rect of the layout, the size of the outer rect and the
\* buffers as they were and clears no cached bitmap.
C11_RecomputeIsIdempotent ==
    /\ [](pc = "ready" => updateToScale(St, _scale) = St)
    /\ [][ (last'.op \in {"Show", "Update"} /\ _shown' /\ _scale' = _scale)
             => /\ UNCHANGED <<layout, caches>>
                /\ RectSize(_outer') = RectSize(_outer) ]_vars

\* an Update for the same scale came after a paint had rebuilt the bitmaps,
\* the userpic's among them, and they are all still there
C11_SameScaleAfterPaint ==
    /\ last.op = "Update"
    /\ _shown
    /\ _bubbleCorners = Asset(St)
    /\ _bubbleTail = Asset(St)
    /\ _shadowSides = Asset(St)
    /\ _userpicImage # Null

----------------------------------------------------------------------------
(* Properties of the event filter *)

\* C12: in embedded mode, while the preview is shown, an event of the slider
\* or of an ancestor leaves the widget with the size of the outer rect and
\* at the place, relative to the parent, it had before the event.
C12_EmbeddedEventKeepsPlacement ==
    [][ (pc = "ready" /\ last'.op = "Event" /\ ~_window /\ _shown)
          => /\ RectSize(_widget'.geometry) = RectSize(_outer')
             /\ _widget'.geometry.x - parent'.x = _widget.geometry.x - parent.x
             /\ _widget'.geometry.y - parent'.y
                  = _widget.geometry.y - parent.y ]_vars

====
